---------------------------- MODULE Spec2Model ----------------------------
(***************************************************************************)
(* Model of the Dahua event-stream client (src/src/dahua.ts, class         *)
(* DahuaEvents) and of the parts of the platform that drive it.            *)
(*                                                                         *)
(* JavaScript strings are sequences of one-character strings, so that      *)
(* split, substr, slice, includes and Number are computed as the code      *)
(* computes them.                                                          *)
(***************************************************************************)
EXTENDS Integers, Sequences, FiniteSets, TLC

(***************************************************************************)
(* String primitives of the JavaScript runtime used by the code.           *)
(***************************************************************************)

\* The characters String.prototype.trim and the regex class \s remove, as far
\* as they occur in the inputs of the model.
Whitespace == {" ", "\t", "\r", "\n"}

Digits == <<"0", "1", "2", "3", "4", "5", "6", "7", "8", "9">>

IsDigit(c) == \E d \in 1..10 : Digits[d] = c

DigitValue(c) == (CHOOSE d \in 1..10 : Digits[d] = c) - 1

\* str.includes(c) for a one-character c
Includes(s, c) == \E i \in 1..Len(s) : s[i] = c

\* str.substr(n): the characters from 0-based position n to the end
Substr(s, n) == SubSeq(s, n + 1, Len(s))

\* str.slice(-n): the last n characters (the whole string when it is shorter)
SliceLast(s, n) == IF Len(s) <= n THEN s ELSE SubSeq(s, Len(s) - n + 1, Len(s))

RECURSIVE SplitRec(_, _, _, _)
SplitRec(s, sep, i, cur) ==
    IF i > Len(s) THEN <<cur>>
    ELSE IF s[i] = sep THEN <<cur>> \o SplitRec(s, sep, i + 1, <<>>)
    ELSE SplitRec(s, sep, i + 1, Append(cur, s[i]))

\* str.split(sep) for a one-character separator: always at least one field
Split(s, sep) == SplitRec(s, sep, 1, <<>>)

RECURSIVE TrimLeft(_)
TrimLeft(s) ==
    IF s # <<>> /\ Head(s) \in Whitespace THEN TrimLeft(Tail(s)) ELSE s

RECURSIVE TrimRight(_)
TrimRight(s) ==
    IF s # <<>> /\ s[Len(s)] \in Whitespace
    THEN TrimRight(SubSeq(s, 1, Len(s) - 1)) ELSE s

RECURSIVE Join(_, _)
Join(parts, sep) ==
    IF parts = <<>> THEN <<>>
    ELSE IF Len(parts) = 1 THEN parts[1]
    ELSE parts[1] \o sep \o Join(Tail(parts), sep)

\* String(n) for a non-negative integer n: its decimal digits
RECURSIVE ToDecimal(_)
ToDecimal(n) ==
    IF n < 10 THEN <<Digits[n + 1]>>
    ELSE Append(ToDecimal(n \div 10), Digits[(n % 10) + 1])

\* The value of a non-empty string of decimal digits
RECURSIVE DecimalValue(_)
DecimalValue(s) ==
    IF s = <<>> THEN 0
    ELSE 10 * DecimalValue(SubSeq(s, 1, Len(s) - 1)) + DigitValue(s[Len(s)])

AllDigits(s) == \A i \in 1..Len(s) : IsDigit(s[i])

\* A JavaScript number: either NaN or an integer value
NaN == [nan |-> TRUE, val |-> 0]

Num(v) == [nan |-> FALSE, val |-> v]

\* Number(str): surrounding whitespace is dropped, the empty string is 0, an
\* optionally signed run of decimal digits is its value, anything else NaN.
\* (The inputs of the model hold no fraction, exponent or radix prefix.)
ToNumber(s) ==
    LET t == TrimRight(TrimLeft(s))
    IN  IF t = <<>> THEN Num(0)
        ELSE IF AllDigits(t) THEN Num(DecimalValue(t))
        ELSE IF Head(t) = "-" /\ Len(t) > 1 /\ AllDigits(Tail(t))
             THEN Num(0 - DecimalValue(Tail(t)))
        ELSE IF Head(t) = "+" /\ Len(t) > 1 /\ AllDigits(Tail(t))
             THEN Num(DecimalValue(Tail(t)))
        ELSE NaN

(***************************************************************************)
(* parseEventData (dahua.ts 171-208)                                       *)
(***************************************************************************)

\* The values the result starts from (dahua.ts 191-193)
SentinelIndex == 0 - 999

\* ParseStartUndefined: the three variables declared without initial values
ParseStartUndefined == [action |-> <<"u", "n", "d", "e", "f", "i", "n", "e", "d">>,
                        index |-> NaN,
                        eventType |-> <<"u", "n", "d", "e", "f", "i", "n", "e", "d">>,
                        thrown |-> FALSE]

ParseStart == [action |-> <<>>, index |-> Num(SentinelIndex), eventType |-> <<>>,
               thrown |-> FALSE]

\* QualifiesAlways: the test of line 197 left out
QualifiesAlways(event) == TRUE

\* event.includes(';') (dahua.ts 197)
Qualifies(event) == Includes(event, ";")

\* One iteration of the forEach callback.  A line holding ';' splits into at
\* least two fields; with exactly two, alarm[2] is undefined and
\* alarm[2].substr throws after eventType and action have been assigned
\* (with a single field alarm[1].substr would throw one statement earlier).
\* Once an iteration has thrown, forEach is abandoned and no later line runs.
ParseLine(st, event) ==
    IF st.thrown THEN st
    ELSE IF ~Qualifies(event) THEN st
    ELSE LET alarm == Split(event, ";")
         IN  IF Len(alarm) < 2
             THEN [st EXCEPT !.eventType = Substr(alarm[1], 5),
                             !.thrown = TRUE]
             ELSE IF Len(alarm) < 3
             THEN [st EXCEPT !.eventType = Substr(alarm[1], 5),
                             !.action = Substr(alarm[2], 7),
                             !.thrown = TRUE]
             ELSE [st EXCEPT !.eventType = Substr(alarm[1], 5),
                             !.action = Substr(alarm[2], 7),
                             !.index = ToNumber(Substr(alarm[3], 6))]

RECURSIVE ParseLines(_, _)
ParseLines(st, lines) ==
    IF lines = <<>> THEN st
    ELSE ParseLines(ParseLine(st, Head(lines)), Tail(lines))

\* parseEventData(data): the returned record, and whether the catch block
\* emitted its 'alarm_payload' diagnostic (field thrown).
parseEventData(data) == ParseLines(ParseStart, Split(data, "\n"))

(***************************************************************************)
(* Digest challenge handling in the catch handler of connect               *)
(* (dahua.ts 113-147)                                                      *)
(***************************************************************************)

RECURSIVE StripAround(_, _)
StripAround(fields, i) ==
    IF i > Len(fields) THEN <<>>
    ELSE LET f0 == fields[i]
             f1 == IF i > 1 THEN TrimLeft(f0) ELSE f0
             f2 == IF i < Len(fields) THEN TrimRight(f1) ELSE f1
         IN  <<f2>> \o StripAround(fields, i + 1)

\* str.split(/\s*,\s*/): split on commas, the whitespace on either side of a
\* comma belonging to the separator
SplitCommas(s) == StripAround(Split(s, ","), 1)

\* header.split(/\s*,\s*/).map(v => v.split('=')) (dahua.ts 122)
AuthDetails(header) ==
    LET parts == SplitCommas(header)
    IN  [i \in 1..Len(parts) |-> Split(parts[i], "=")]

RECURSIVE RemoveQuotes(_)
RemoveQuotes(s) ==
    IF s = <<>> THEN <<>>
    ELSE IF Head(s) = "\"" THEN RemoveQuotes(Tail(s))
    ELSE <<Head(s)>> \o RemoveQuotes(Tail(s))

\* Whether lines 128-129 run without a TypeError: authDetails[0][1] and
\* authDetails[2][1] must both exist for .replace to be callable.
ExtractionSucceeds(header) ==
    LET authDetails == AuthDetails(header)
    IN  /\ Len(authDetails[1]) >= 2
        /\ Len(authDetails) >= 3
        /\ Len(authDetails[3]) >= 2

\* nonceCountShort: slice(-7) in place of slice(-8)
nonceCountShort(count) ==
    SliceLast(<<"0", "0", "0", "0", "0", "0", "0", "0">> \o ToDecimal(count), 7)

\* ('00000000' + count).slice(-8) (dahua.ts 125)
nonceCount(count) ==
    SliceLast(<<"0", "0", "0", "0", "0", "0", "0", "0">> \o ToDecimal(count), 8)

\* IncrementCountSkipped: the increment left out
IncrementCountSkipped(count) == count

\* ++count (dahua.ts 124)
IncrementCount(count) == count + 1

\* The value of this.HEADERS['authorization'] before any challenge was solved
NoAuthorization ==
    [present |-> FALSE, username |-> <<>>, realm |-> <<>>, nonce |-> <<>>, uri |-> <<>>,
     response |-> <<>>, nc |-> <<>>, cnonce |-> <<>>]

\* The path and query the constructor builds for the instance (dahua.ts 34),
\* here for an instance that watches the code VideoMotion
events == <<<<"V", "i", "d", "e", "o", "M", "o", "t", "i", "o", "n">>>>

eventsWatchUri ==
    <<"/", "c", "g", "i", "-", "b", "i", "n", "/", "e", "v", "e", "n", "t", "M", "a", "n", "a", "g", "e", "r", ".", "c", "g", "i", "?", "a", "c", "t", "i", "o", "n", "=", "a", "t", "t", "a", "c", "h", "&", "c", "o", "d", "e", "s", "=", "[">>
    \o Join(events, <<",">>) \o <<"]">>

\* crypto.createHash('md5').update(str).digest('hex') (dahua.ts 131). The hash
\* is kept symbolic: the digest of str is str between the marks < and >, which
\* occur in no input, so that different arguments have different digests.
md5(str) == <<"<">> \o str \o <<">">>

\* HA1, HA2 and response (dahua.ts 133-135)
HA1(credentials, realm) ==
    md5(credentials.username \o <<":">> \o realm \o <<":">> \o credentials.password)

HA2 == md5(<<"G", "E", "T", ":">> \o eventsWatchUri)

DigestResponse(credentials, realm, nonce, nc, cnonce) ==
    md5(HA1(credentials, realm) \o <<":">> \o nonce \o <<":">> \o nc \o <<":">> \o cnonce
        \o <<":", "a", "u", "t", "h", ":">> \o HA2)

\* The Authorization value assigned at dahua.ts 137-139, by its fields
DigestHeader(header, count, cnonce, credentials) ==
    LET authDetails == AuthDetails(header)
        realm == RemoveQuotes(authDetails[1][2])
        nonce == RemoveQuotes(authDetails[3][2])
    IN  [present |-> TRUE,
         username |-> credentials.username,
         realm |-> realm,
         nonce |-> nonce,
         uri |-> eventsWatchUri,
         response |-> DigestResponse(credentials, realm, nonce, nonceCount(count), cnonce),
         nc |-> nonceCount(count),
         cnonce |-> cnonce]

(***************************************************************************)
(* Inputs of the connection engine                                         *)
(***************************************************************************)

Undefined == [defined |-> FALSE, value |-> <<>>]

Defined(s) == [defined |-> TRUE, value |-> s]

\* if (x): a header value is truthy when it is present and not empty
Truthy(h) == h.defined /\ h.value # <<>>

ChallengeQuoted == <<"D", "i", "g", "e", "s", "t", " ", "r", "e", "a", "l", "m", "=", "\"", "L", "\"", ",", "q", "o", "p", "=", "\"", "a", "u", "t", "h", "\"", ",", "n", "o", "n", "c", "e", "=", "\"", "a", "1", "\"", ",", "o", "p", "a", "q", "u", "e", "=", "\"", "x", "\"">>

ChallengeSpaced == <<"D", "i", "g", "e", "s", "t", " ", "r", "e", "a", "l", "m", "=", "\"", "L", "\"", ",", " ", "q", "o", "p", "=", "\"", "a", "u", "t", "h", "\"", ",", " ", "n", "o", "n", "c", "e", "=", "\"", "a", "1", "\"", ",", " ", "o", "p", "a", "q", "u", "e", "=", "\"", "x", "\"">>

ChallengeBare == <<"D", "i", "g", "e", "s", "t", " ", "r", "e", "a", "l", "m", "=", "M", ",", "q", "o", "p", "=", "a", "u", "t", "h", ",", "n", "o", "n", "c", "e", "=", "b", "2">>

ChallengeTwoFields == <<"D", "i", "g", "e", "s", "t", " ", "r", "e", "a", "l", "m", "=", "\"", "L", "\"", ",", "q", "o", "p", "=", "\"", "a", "u", "t", "h", "\"">>

ChallengeNoValue == <<"B", "a", "s", "i", "c">>

ChallengeThirdNoValue == <<"D", "i", "g", "e", "s", "t", " ", "r", "e", "a", "l", "m", "=", "\"", "L", "\"", ",", "q", "o", "p", "=", "\"", "a", "u", "t", "h", "\"", ",", "n", "o", "n", "c", "e">>

Challenges == {ChallengeQuoted, ChallengeSpaced, ChallengeBare,
               ChallengeTwoFields, ChallengeNoValue, ChallengeThirdNoValue}

\* The rejections Axios.request can produce: an HTTP response outside 2xx
\* (err.response set), no response (err.request set), or a failure before the
\* request was sent (neither set).
ResponseError(status, h) == [kind |-> "response", status |-> status, wwwAuth |-> h]

NoResponseError == [kind |-> "request", status |-> 0, wwwAuth |-> Undefined]

SetupError == [kind |-> "setup", status |-> 0, wwwAuth |-> Undefined]

NoError == [kind |-> "none", status |-> 0, wwwAuth |-> Undefined]

HeaderValues == {Undefined, Defined(<<>>)} \cup {Defined(c) : c \in Challenges}

Errors ==
    {ResponseError(401, h) : h \in HeaderValues}
    \cup {ResponseError(403, Undefined), ResponseError(500, Undefined),
          ResponseError(403, Defined(ChallengeQuoted))}
    \cup {NoResponseError, SetupError}

\* crypto.randomBytes(24).toString('hex') (dahua.ts 126): any value
CNonces == {<<"c", "1">>, <<"c", "2">>}

ChunkStart == <<"-", "-", "m", "y", "b", "o", "u", "n", "d", "a", "r", "y", "\n", "C", "o", "n", "t", "e", "n", "t", "-", "T", "y", "p", "e", ":", " ", "t", "e", "x", "t", "/", "p", "l", "a", "i", "n", "\n", "C", "o", "n", "t", "e", "n", "t", "-", "L", "e", "n", "g", "t", "h", ":", "3", "6", "\n", "C", "o", "d", "e", "=", "V", "M", ";", "a", "c", "t", "i", "o", "n", "=", "S", "t", "a", "r", "t", ";", "i", "n", "d", "e", "x", "=", "0">>

ChunkStop == <<"C", "o", "d", "e", "=", "V", "M", ";", "a", "c", "t", "i", "o", "n", "=", "S", "t", "o", "p", ";", "i", "n", "d", "e", "x", "=", "5", ";", "d", "a", "t", "a", "=", "{", "\n", "\"", "S", "m", "a", "r", "t", "M", "o", "t", "i", "o", "n", "E", "n", "a", "b", "l", "e", "\"", " ", ":", " ", "f", "a", "l", "s", "e", "\n", "}">>

ChunkHeartbeat == <<"-", "-", "m", "y", "b", "o", "u", "n", "d", "a", "r", "y", "\n", "\n">>

Chunks == {ChunkStart, ChunkStop, ChunkHeartbeat}

(***************************************************************************)
(* Bounds of the model                                                     *)
(***************************************************************************)

\* Consecutive digest retries followed within one connection attempt
MaxCount == 2

\* Response streams that exist at once (open, or terminated and not yet closed)
MaxStreams == 1

\* Alarms kept in the log of published alarms
MaxAlarms == 1

\* Milliseconds that pass in one step of the clock
TickMs == 5000

(***************************************************************************)
(* State of one DahuaEvents instance                                       *)
(***************************************************************************)

VARIABLES
    requests,   \* Axios requests in flight: [count, authorization] each
    streams,    \* response streams not yet closed: "open", "ended" or "errored"
    timers,     \* pending setTimeout callbacks of reconnect: [interval, elapsed]
    HEADERS,    \* this.HEADERS['authorization']
    alarms,     \* the 'alarm' payloads published so far, in order
    last,       \* the callback that ran last, its input and what it emitted
    data,       \* argument of a direct parseEventData call
    parsed,     \* its result, once it has returned
    solved,     \* challenges answered since the constructor or the last timer
    auth,       \* axiosRequestConfig.auth: [username, password]
    targets,    \* two DahuaEvents instances side by side: their state, by instance
    HEADERSOf,  \* the HEADERS objects of those instances, by object
    acted,      \* which of the two instances ran last, and which callback
    config,     \* the PlatformConfig handed to DahuaMotionAlertsPlatform
    phase,      \* how far the platform constructor got
    connections, \* the DahuaEvents instances the platform constructed
    delivered,  \* the alarm last given to alertMotion
    posts       \* the POST requests alertMotion issued for it

engineVars ==
    <<requests, streams, timers, HEADERS, alarms, last, data, parsed, solved, auth>>

twoVars == <<targets, HEADERSOf, acted>>

platformVars == <<config, phase, connections, delivered, posts>>

vars == <<engineVars, twoVars, platformVars>>

host == "10.0.0.5"

RECONNECT_INTERNAL_MS == 10000

Remove(s, i) == SubSeq(s, 1, i - 1) \o SubSeq(s, i + 1, Len(s))

Ran(handler, emitted) ==
    [handler |-> handler, emitted |-> emitted, err |-> NoError, count |-> 0,
     chunk |-> <<>>, waited |-> 0]

NotParsed == [done |-> FALSE, action |-> <<>>, index |-> Num(0), eventType |-> <<>>,
              diagnostic |-> FALSE]

\* connect(axiosRequestConfig, count): Axios.request is issued with the headers
\* the configuration holds at that moment (dahua.ts 76-77)
connect(reqs, authorization, count) ==
    Append(reqs, [count |-> count, authorization |-> authorization])

\* reconnectNoDelay: setTimeout called without its delay argument
reconnectNoDelay(tms, reconnection_interval_ms) ==
    Append(tms, [interval |-> 0, elapsed |-> 0])

\* reconnect(axiosRequestConfig, ms): setTimeout(..., ms) (dahua.ts 166-168)
reconnect(tms, reconnection_interval_ms) ==
    Append(tms, [interval |-> reconnection_interval_ms, elapsed |-> 0])

\* IsChallengeAnyStatus: the status === 401 test left out
IsChallengeAnyStatus(err) == err.kind = "response" /\ Truthy(err.wwwAuth)

\* The condition of dahua.ts 112-113 under which the digest branch is entered
IsChallenge(err) ==
    err.kind = "response" /\ err.status = 401 /\ Truthy(err.wwwAuth)

\* The try block of dahua.ts 114-144 reaches its connect call and returns
DigestRetry(err) == IsChallenge(err) /\ ExtractionSucceeds(err.wwwAuth.value)

\* ScheduleAfterFailureSkipped: the reconnect call of line 159 left out
ScheduleAfterFailureSkipped(tms) == tms

\* The tail of the catch handler: this.reconnect(...) (dahua.ts 159)
ScheduleAfterFailure(tms) == reconnect(tms, RECONNECT_INTERNAL_MS)

\* TimersAfterCloseReconnect: a 'close' listener that reconnects as well
TimersAfterCloseReconnect(tms) == reconnect(tms, RECONNECT_INTERNAL_MS)

\* The stream 'close' listener (dahua.ts 91-93) schedules nothing
TimersAfterClose(tms) == tms

\* TimersAfterFireKept: setInterval in place of setTimeout
TimersAfterFireKept(tms, k) == tms

\* The timer of setTimeout is gone once its callback runs (dahua.ts 166)
TimersAfterFire(tms, k) == Remove(tms, k)

\* CountAfterReconnectOne: the timer callback counting its own request
CountAfterReconnectOne == 0 + 1

\* The count the timer callback passes to connect (dahua.ts 167)
CountAfterReconnect == 0

\* constructor (dahua.ts 31-74): one connect with count 0 and no Authorization
EngineInit ==
    /\ requests = connect(<<>>, NoAuthorization, 0)
    /\ streams = <<>>
    /\ timers = <<>>
    /\ HEADERS = NoAuthorization
    /\ alarms = <<>>
    /\ last = Ran("constructor", <<>>)
    /\ solved = 0

\* The specifications of a single instance leave the two-instance variables
\* and the platform variables empty
NoTargets ==
    /\ targets = <<>>
    /\ HEADERSOf = <<>>
    /\ acted = [target |-> 0, handler |-> "none"]

NoAlarm == [present |-> FALSE, action |-> <<>>, index |-> NaN, eventType |-> <<>>,
            host |-> <<>>]

NoPlatform ==
    /\ config = <<>>
    /\ phase = "absent"
    /\ connections = <<>>
    /\ delivered = NoAlarm
    /\ posts = <<>>

\* The credentials the instance is constructed with (dahua.ts 36-39)
Operator == [username |-> <<"a", "d", "m", "i", "n">>, password |-> <<"p", "w">>]

Init ==
    /\ EngineInit
    /\ auth = Operator
    /\ NoTargets
    /\ NoPlatform
    /\ data = <<>>
    /\ parsed = NotParsed

\* The listeners below are driven by the response stream, a Node.js Readable:
\* it delivers 'data' while open, then at most one of 'error' and 'end', and
\* 'close' last; 'close' also comes alone when the stream is destroyed without
\* an error (the connection is torn down while the body is still open).

\* .then of Axios.request (dahua.ts 77-103): the response body becomes a stream
\* with its four listeners attached
Then(i) ==
    /\ Len(streams) < MaxStreams
    /\ requests' = Remove(requests, i)
    /\ streams' = Append(streams, "open")
    /\ last' = Ran("then", <<"alarm_payload", "alarm_payload">>)
    /\ UNCHANGED <<timers, HEADERS, alarms, data, parsed, solved, auth, twoVars, platformVars>>

\* The payload of the 'alarm' event (dahua.ts 87-88)
AlarmOfSwapped(event) ==
    [action |-> event.eventType, index |-> event.index,
     eventType |-> event.action, host |-> host]

AlarmOf(event) ==
    [action |-> event.action, index |-> event.index,
     eventType |-> event.eventType, host |-> host]

\* eventEmitter.emit(ALARM_EVENT_NAME, ...) (dahua.ts 88): every call publishes
PublishOnce(log, alarm) ==
    IF \E n \in 1..Len(log) : log[n] = alarm THEN log ELSE Append(log, alarm)

Publish(log, alarm) == Append(log, alarm)

\* stream 'data' listener (dahua.ts 84-89)
StreamData(j, chunk) ==
    /\ streams[j] = "open"
    /\ LET event == parseEventData(chunk)
       IN  /\ alarms' = Publish(alarms, AlarmOf(event))
           /\ last' = [Ran("data", <<"alarm_payload">>
                                   \o (IF event.thrown THEN <<"alarm_payload">> ELSE <<>>)
                                   \o <<"alarm">>)
                       EXCEPT !.chunk = chunk]
    /\ UNCHANGED <<requests, streams, timers, HEADERS, data, parsed, solved, auth, twoVars, platformVars>>

\* stream 'close' listener (dahua.ts 91-93); nothing follows 'close'
StreamClose(j) ==
    /\ streams' = Remove(streams, j)
    /\ timers' = TimersAfterClose(timers)
    /\ last' = Ran("close", <<"alarm_payload">>)
    /\ UNCHANGED <<requests, HEADERS, alarms, data, parsed, solved, auth, twoVars, platformVars>>

\* stream 'error' listener (dahua.ts 95-98)
StreamError(j) ==
    /\ streams[j] = "open"
    /\ streams' = [streams EXCEPT ![j] = "errored"]
    /\ timers' = reconnect(timers, RECONNECT_INTERNAL_MS)
    /\ last' = Ran("error", <<"alarm_payload", "reconnecting">>)
    /\ UNCHANGED <<requests, HEADERS, alarms, data, parsed, solved, auth, twoVars, platformVars>>

\* stream 'end' listener (dahua.ts 100-103)
StreamEnd(j) ==
    /\ streams[j] = "open"
    /\ streams' = [streams EXCEPT ![j] = "ended"]
    /\ timers' = reconnect(timers, RECONNECT_INTERNAL_MS)
    /\ last' = Ran("end", <<"alarm_payload", "reconnecting">>)
    /\ UNCHANGED <<requests, HEADERS, alarms, data, parsed, solved, auth, twoVars, platformVars>>

\* .catch of Axios.request (dahua.ts 105-160) for the request at position i
Catch(i, err, cnonce) ==
    LET count == requests[i].count
        ran(emitted) == [Ran("catch", emitted) EXCEPT !.err = err, !.count = count]
    IN  IF DigestRetry(err)
        THEN LET next == IncrementCount(count)
                 authorization == DigestHeader(err.wwwAuth.value, next, cnonce, auth)
             IN  /\ HEADERS' = authorization
                 /\ requests' = connect(Remove(requests, i), authorization, next)
                 /\ last' = ran(<<"alarm_payload">>)
                 /\ solved' = solved + 1
                 /\ UNCHANGED <<streams, timers, alarms, data, parsed, auth, twoVars, platformVars>>
        ELSE /\ requests' = Remove(requests, i)
             /\ timers' = ScheduleAfterFailure(timers)
             /\ last' = ran(<<"error", "reconnecting">>)
             /\ UNCHANGED <<streams, HEADERS, alarms, data, parsed, solved, auth, twoVars, platformVars>>

\* The setTimeout callback of reconnect (dahua.ts 166-168); a timer runs its
\* callback once its interval has passed, not before
TimerFire(k) ==
    /\ timers[k].elapsed >= timers[k].interval
    /\ timers' = TimersAfterFire(timers, k)
    /\ requests' = connect(requests, HEADERS, CountAfterReconnect)
    /\ last' = [Ran("timer", <<>>) EXCEPT !.waited = timers[k].elapsed]
    /\ solved' = 0
    /\ UNCHANGED <<streams, HEADERS, alarms, data, parsed, auth, twoVars, platformVars>>

Min(a, b) == IF a < b THEN a ELSE b

\* Time passes: every pending timer is TickMs older
Tick ==
    /\ \E k \in 1..Len(timers) : timers[k].elapsed < timers[k].interval
    /\ timers' = [k \in 1..Len(timers) |->
                    [timers[k] EXCEPT !.elapsed = Min(@ + TickMs, timers[k].interval)]]
    /\ last' = Ran("tick", <<>>)
    /\ UNCHANGED <<requests, streams, HEADERS, alarms, data, parsed, solved, auth, twoVars, platformVars>>

Next ==
    \/ \E i \in 1..Len(requests) : Then(i)
    \/ \E j \in 1..Len(streams), chunk \in Chunks :
          /\ Len(alarms) < MaxAlarms
          /\ StreamData(j, chunk)
    \/ \E j \in 1..Len(streams) : StreamClose(j)
    \/ \E j \in 1..Len(streams) : StreamError(j)
    \/ \E j \in 1..Len(streams) : StreamEnd(j)
    \/ \E i \in 1..Len(requests), err \in Errors, cnonce \in CNonces :
          /\ DigestRetry(err) => requests[i].count < MaxCount
          /\ Catch(i, err, cnonce)
    \/ \E k \in 1..Len(timers) : TimerFire(k)
    \/ Tick

Spec == Init /\ [][Next]_vars

(***************************************************************************)
(* parseEventData called on its own: the buffer is any sequence of at most *)
(* MaxLines lines, joined by newlines.                                     *)
(***************************************************************************)

MaxLines == 3

LineStart == <<"C", "o", "d", "e", "=", "V", "M", ";", "a", "c", "t", "i", "o", "n", "=", "S", "t", "a", "r", "t", ";", "i", "n", "d", "e", "x", "=", "0">>

LineStopData == <<"C", "o", "d", "e", "=", "V", "L", ";", "a", "c", "t", "i", "o", "n", "=", "S", "t", "o", "p", ";", "i", "n", "d", "e", "x", "=", "5", ";", "d", "a", "t", "a", "=", "{">>

LinePulseCR == <<"C", "o", "d", "e", "=", "A", "L", ";", "a", "c", "t", "i", "o", "n", "=", "P", "u", "l", "s", "e", ";", "i", "n", "d", "e", "x", "=", "1", "2", "\r">>

LineBoundary == <<"-", "-", "m", "y", "b", "o", "u", "n", "d", "a", "r", "y">>

LineBlank == <<>>

LineLength == <<"C", "o", "n", "t", "e", "n", "t", "-", "L", "e", "n", "g", "t", "h", ":", "3", "6">>

LineTwoFields == <<"C", "o", "d", "e", "=", "V", "M", ";", "a", "c", "t", "i", "o", "n", "=", "S", "t", "o", "p">>

LineSemicolon == <<";">>

Lines == {LineStart, LineStopData, LinePulseCR, LineBoundary, LineBlank,
          LineLength, LineTwoFields, LineSemicolon}

Buffers ==
    UNION {{Join(ls, <<"\n">>) : ls \in [1..n -> Lines]} : n \in 1..MaxLines}

ParseInit ==
    /\ EngineInit
    /\ auth = Operator
    /\ NoTargets
    /\ NoPlatform
    /\ data \in Buffers
    /\ parsed = NotParsed

\* One call parseEventData(data) (dahua.ts 171-208): the record returned at
\* line 207 and whether line 205 emitted the diagnostic
ParseCall ==
    /\ ~parsed.done
    /\ LET event == parseEventData(data)
       IN  parsed' = [done |-> TRUE, action |-> event.action, index |-> event.index,
                      eventType |-> event.eventType, diagnostic |-> event.thrown]
    /\ UNCHANGED <<requests, streams, timers, HEADERS, alarms, last, data, solved, auth, twoVars, platformVars>>

ParseNext == ParseCall

ParseSpec == ParseInit /\ [][ParseNext]_vars

(***************************************************************************)
(* A run of consecutive digest retries, entered at a counter value close   *)
(* to a power of ten: the request in flight is the one the digest branch   *)
(* issued for that counter.                                                *)
(***************************************************************************)

\* How far on either side of a power of ten the counters are followed
NcSpan == 2

RECURSIVE Pow10(_)
Pow10(k) == IF k = 0 THEN 1 ELSE 10 * Pow10(k - 1)

NcPowers == {Pow10(k) : k \in 1..8}

NcStarts == {p - NcSpan : p \in NcPowers}

NcFollowed(count) == \E p \in NcPowers : count >= p - NcSpan /\ count < p + NcSpan

NcInit ==
    /\ \E count \in NcStarts :
          LET authorization == DigestHeader(ChallengeQuoted, count, <<"c", "1">>, Operator)
          IN  /\ requests = connect(<<>>, authorization, count)
              /\ HEADERS = authorization
              /\ last = [Ran("catch", <<"alarm_payload">>)
                         EXCEPT !.err = ResponseError(401, Defined(ChallengeQuoted)),
                                !.count = count - 1]
              /\ solved = count
    /\ streams = <<>>
    /\ timers = <<>>
    /\ alarms = <<>>
    /\ data = <<>>
    /\ parsed = NotParsed
    /\ auth = Operator
    /\ NoTargets
    /\ NoPlatform

NcNext ==
    \E i \in 1..Len(requests), err \in Errors, cnonce \in CNonces :
        /\ NcFollowed(requests[i].count)
        /\ Catch(i, err, cnonce)

NcSpec == NcInit /\ [][NcNext]_vars


(***************************************************************************)
(* The digest branch answering well-formed challenges, for instances built *)
(* with different credentials.                                             *)
(***************************************************************************)

\* realm and nonce are the first two fields, qop the third
ChallengeNonceSecond == <<"D", "i", "g", "e", "s", "t", " ", "r", "e", "a", "l", "m", "=", "\"", "L", "\"", ",", " ", "n", "o", "n", "c", "e", "=", "\"", "a", "1", "\"", ",", " ", "q", "o", "p", "=", "\"", "a", "u", "t", "h", "\"">>

\* the nonce is base64 text ending in its padding
ChallengeNoncePadded == <<"D", "i", "g", "e", "s", "t", " ", "r", "e", "a", "l", "m", "=", "\"", "L", "\"", ",", "q", "o", "p", "=", "\"", "a", "u", "t", "h", "\"", ",", "n", "o", "n", "c", "e", "=", "\"", "a", "1", "=", "=", "\"">>

ValidChallenges ==
    {ChallengeQuoted, ChallengeSpaced, ChallengeBare, ChallengeNonceSecond,
     ChallengeNoncePadded}

Credentials ==
    {[username |-> u, password |-> p] :
        u \in {<<"a", "d", "m", "i", "n">>, <<"v", "i", "e", "w">>},
        p \in {<<"p", "w">>, <<"s", "3", "c">>, <<>>}}

DigestInit ==
    /\ EngineInit
    /\ auth \in Credentials
    /\ NoTargets
    /\ NoPlatform
    /\ data = <<>>
    /\ parsed = NotParsed

DigestNext ==
    \E i \in 1..Len(requests), challenge \in ValidChallenges, cnonce \in CNonces :
        /\ requests[i].count < MaxCount
        /\ Catch(i, ResponseError(401, Defined(challenge)), cnonce)

DigestSpec == DigestInit /\ [][DigestNext]_vars

(***************************************************************************)
(* Two DahuaEvents instances, as the platform constructs them for two      *)
(* hosts (part_000 53-64). What the class declares per instance is held by *)
(* instance: the requests, streams and timers of its own callbacks, its    *)
(* HEADERS object and its keep-alive agent.                                *)
(***************************************************************************)

TargetIds == {1, 2}

HostOf(t) == IF t = 1 THEN "10.0.0.5" ELSE "10.0.0.6"

\* HeadersObjectShared: HEADERS declared static, one object for the class
HeadersObjectShared(t) == 1

\* private HEADERS: any = {...} (dahua.ts 9): a field initialiser, evaluated for
\* each instance, so each instance has an object of its own
HeadersObject(t) == t

\* let keepAliveAgent = new HttpAgent(...) / new HttpsAgent(...) in the
\* constructor (dahua.ts 41-58): each instance has an agent of its own
Agent(t) == t

\* maxSockets: 1 (dahua.ts 16): an agent gives its socket to one request at a
\* time, and an open response stream keeps it
SocketFree(t) ==
    \A u \in TargetIds :
        Agent(u) = Agent(t) =>
            \A j \in 1..Len(targets[u].streams) : targets[u].streams[j] # "open"

\* Failures that have a response came over the socket of the agent
NeedsSocket(err) == err.kind = "response"

TwoErrors == {ResponseError(401, Defined(ChallengeQuoted)), NoResponseError, SetupError}

\* The engine variables of the single instance are not used
NoInstance ==
    /\ requests = <<>>
    /\ streams = <<>>
    /\ timers = <<>>
    /\ HEADERS = NoAuthorization
    /\ alarms = <<>>
    /\ last = Ran("none", <<>>)
    /\ data = <<>>
    /\ parsed = NotParsed
    /\ solved = 0
    /\ auth = Operator

\* Both constructors have run (dahua.ts 31-74)
TwoInit ==
    /\ targets = [t \in TargetIds |->
                    [requests |-> connect(<<>>, NoAuthorization, 0), streams |-> <<>>,
                     timers |-> <<>>, alarms |-> <<>>]]
    /\ HEADERSOf = [o \in TargetIds |-> NoAuthorization]
    /\ acted = [target |-> 0, handler |-> "constructor"]
    /\ NoInstance
    /\ NoPlatform

Acted(t, handler) == [target |-> t, handler |-> handler]

\* .then of Axios.request (dahua.ts 77-103)
TargetThen(t, i) ==
    /\ SocketFree(t)
    /\ targets' = [targets EXCEPT ![t].requests = Remove(@, i),
                                  ![t].streams = Append(@, "open")]
    /\ acted' = Acted(t, "then")
    /\ UNCHANGED <<HEADERSOf, engineVars, platformVars>>

\* stream 'data' listener (dahua.ts 84-89)
TargetData(t, j, chunk) ==
    /\ targets[t].streams[j] = "open"
    /\ targets' = [targets EXCEPT ![t].alarms =
                      Publish(@, [AlarmOf(parseEventData(chunk)) EXCEPT !.host = HostOf(t)])]
    /\ acted' = Acted(t, "data")
    /\ UNCHANGED <<HEADERSOf, engineVars, platformVars>>

\* stream 'close' listener (dahua.ts 91-93)
TargetClose(t, j) ==
    /\ targets' = [targets EXCEPT ![t].streams = Remove(@, j),
                                  ![t].timers = TimersAfterClose(@)]
    /\ acted' = Acted(t, "close")
    /\ UNCHANGED <<HEADERSOf, engineVars, platformVars>>

\* stream 'error' and 'end' listeners (dahua.ts 95-103)
TargetTerminated(t, j, how) ==
    /\ targets[t].streams[j] = "open"
    /\ targets' = [targets EXCEPT ![t].streams[j] = how,
                                  ![t].timers = reconnect(@, RECONNECT_INTERNAL_MS)]
    /\ acted' = Acted(t, IF how = "ended" THEN "end" ELSE "error")
    /\ UNCHANGED <<HEADERSOf, engineVars, platformVars>>

\* .catch of Axios.request (dahua.ts 105-160)
TargetCatch(t, i, err, cnonce) ==
    /\ NeedsSocket(err) => SocketFree(t)
    /\ LET count == targets[t].requests[i].count
       IN  IF DigestRetry(err)
           THEN LET next == IncrementCount(count)
                    authorization == DigestHeader(err.wwwAuth.value, next, cnonce, Operator)
                IN  /\ HEADERSOf' = [HEADERSOf EXCEPT ![HeadersObject(t)] = authorization]
                    /\ targets' = [targets EXCEPT ![t].requests =
                                      connect(Remove(@, i), authorization, next)]
           ELSE /\ targets' = [targets EXCEPT ![t].requests = Remove(@, i),
                                              ![t].timers = ScheduleAfterFailure(@)]
                /\ UNCHANGED HEADERSOf
    /\ acted' = Acted(t, "catch")
    /\ UNCHANGED <<engineVars, platformVars>>

\* The setTimeout callback of reconnect (dahua.ts 166-168)
TargetTimer(t, k) ==
    /\ targets[t].timers[k].elapsed >= targets[t].timers[k].interval
    /\ targets' = [targets EXCEPT
                      ![t].timers = TimersAfterFire(@, k),
                      ![t].requests =
                          connect(@, HEADERSOf[HeadersObject(t)], CountAfterReconnect)]
    /\ acted' = Acted(t, "timer")
    /\ UNCHANGED <<HEADERSOf, engineVars, platformVars>>

\* Time passes for both instances
TwoTick ==
    /\ \E t \in TargetIds : \E k \in 1..Len(targets[t].timers) :
          targets[t].timers[k].elapsed < targets[t].timers[k].interval
    /\ targets' = [t \in TargetIds |->
                     [targets[t] EXCEPT !.timers =
                         [k \in 1..Len(targets[t].timers) |->
                             [targets[t].timers[k] EXCEPT !.elapsed =
                                 Min(@ + TickMs, targets[t].timers[k].interval)]]]]
    /\ acted' = Acted(0, "tick")
    /\ UNCHANGED <<HEADERSOf, engineVars, platformVars>>

\* Each instance is followed through one response stream at a time (a new
\* response is taken up once the stream before it has closed) and through the
\* first chunk of its streams.
TwoNext ==
    \/ \E t \in TargetIds : \E i \in 1..Len(targets[t].requests) :
          /\ targets[t].streams = <<>>
          /\ TargetThen(t, i)
    \/ \E t \in TargetIds : \E j \in 1..Len(targets[t].streams) :
          /\ targets[t].alarms = <<>>
          /\ TargetData(t, j, ChunkStart)
    \/ \E t \in TargetIds : \E j \in 1..Len(targets[t].streams) : TargetClose(t, j)
    \/ \E t \in TargetIds : \E j \in 1..Len(targets[t].streams), how \in {"ended", "errored"} :
          TargetTerminated(t, j, how)
    \/ \E t \in TargetIds : \E i \in 1..Len(targets[t].requests), err \in TwoErrors :
          /\ DigestRetry(err) => targets[t].requests[i].count < MaxCount
          /\ TargetCatch(t, i, err, <<"c", "1">>)
    \/ \E t \in TargetIds : \E k \in 1..Len(targets[t].timers) : TargetTimer(t, k)
    \/ TwoTick

TwoSpec == TwoInit /\ [][TwoNext]_vars

(***************************************************************************)
(* DahuaMotionAlertsPlatform (part_000): the configuration it is given,    *)
(* its constructor and alertMotion.                                        *)
(***************************************************************************)

HostA == <<"1", "0", ".", "0", ".", "0", ".", "5">>

HostB == <<"1", "0", ".", "0", ".", "0", ".", "6">>

VideoMotion == <<"V", "i", "d", "e", "o", "M", "o", "t", "i", "o", "n">>

AlarmLocal == <<"A", "l", "a", "r", "m", "L", "o", "c", "a", "l">>

NoCredentials ==
    [defined |-> FALSE, host |-> Undefined, user |-> Undefined, pass |-> Undefined]

CameraCredentials(h, u, p) == [defined |-> TRUE, host |-> h, user |-> u, pass |-> p]

User == Defined(<<"a", "d", "m", "i", "n">>)

Pass == Defined(<<"p", "w">>)

CameraConfig(name, index, types, credentials) ==
    [cameraName |-> name, index |-> index, triggerEventTypes |-> types,
     cameraCredentials |-> credentials]

\* Cameras as a config.json can list them: complete ones, with and without
\* credentials of their own, and ones with an entry missing
CameraFront == CameraConfig(Defined(<<"F", "r", "o", "n", "t">>), Num(0), <<VideoMotion>>,
                            NoCredentials)

CameraYard == CameraConfig(Defined(<<"B", "a", "c", "k", " ", "Y", "a", "r", "d">>), Num(1),
                           <<VideoMotion, AlarmLocal>>, NoCredentials)

CameraGate == CameraConfig(Defined(<<"G", "a", "t", "e">>), Num(0), <<AlarmLocal>>,
                           CameraCredentials(Defined(HostB), User, Pass))

CameraShed == CameraConfig(Defined(<<"S", "h", "e", "d">>), Num(1), <<VideoMotion>>,
                           CameraCredentials(Defined(HostA), User, Pass))

CameraUnnamed == CameraConfig(Undefined, Num(0), <<VideoMotion>>, NoCredentials)

CameraNoIndex == CameraConfig(Defined(<<"H", "a", "l", "l">>), NaN, <<VideoMotion>>,
                              NoCredentials)

CameraNoTypes == CameraConfig(Defined(<<"R", "o", "o", "f">>), Num(0), <<>>,
                              CameraCredentials(Defined(HostB), User, Pass))

CameraNoPass == CameraConfig(Defined(<<"P", "o", "n", "d">>), Num(0), <<VideoMotion>>,
                             CameraCredentials(Defined(HostB), User, Undefined))

Cameras == {CameraFront, CameraYard, CameraGate, CameraShed, CameraUnnamed,
            CameraNoIndex, CameraNoTypes, CameraNoPass}

CameraLists == {<<>>} \cup {<<c>> : c \in Cameras} \cup {<<c, d>> : c, d \in Cameras}

\* The top-level host, user and pass: absent, complete, or without a pass
TopLevels ==
    {[host |-> Undefined, user |-> Undefined, pass |-> Undefined],
     [host |-> Defined(HostA), user |-> User, pass |-> Pass],
     [host |-> Defined(HostA), user |-> User, pass |-> Undefined]}

Ports == {Undefined, Defined(<<"8", "0", "8", "0">>)}

Configs ==
    {[homebridgeCameraFfmpegHttpPort |-> port, host |-> top.host, user |-> top.user,
      pass |-> top.pass, cameras |-> cameras] :
        port \in Ports, top \in TopLevels, cameras \in CameraLists}

\* invalidCameraCredentials (part_000 156-171)
invalidCameraCredentials(credentials) ==
    IF ~Truthy(credentials.host) THEN TRUE
    ELSE IF ~Truthy(credentials.user) THEN TRUE
    ELSE IF ~Truthy(credentials.pass) THEN TRUE
    ELSE FALSE

\* The body of the forEach of isInvalidConfig for one camera (part_000 138-150);
\* !camera.index && camera.index !== 0 holds for an index that is no number
InvalidCamera(camera) ==
    IF ~Truthy(camera.cameraName) \/ camera.index.nan THEN TRUE
    ELSE IF camera.triggerEventTypes = <<>> THEN TRUE
    ELSE IF camera.cameraCredentials.defined
            /\ invalidCameraCredentials(camera.cameraCredentials) THEN TRUE
    ELSE FALSE

\* isInvalidConfig (part_000 124-154)
isInvalidConfig(cfg) ==
    IF ~Truthy(cfg.homebridgeCameraFfmpegHttpPort) THEN TRUE
    ELSE IF cfg.cameras = <<>> THEN TRUE
    ELSE IF (Truthy(cfg.host) \/ Truthy(cfg.user) \/ Truthy(cfg.pass))
            /\ invalidCameraCredentials([host |-> cfg.host, user |-> cfg.user,
                                         pass |-> cfg.pass]) THEN TRUE
    ELSE \E n \in 1..Len(cfg.cameras) : InvalidCamera(cfg.cameras[n])

(***************************************************************************)
(* The platform constructor (part_000 21-66)                               *)
(***************************************************************************)

\* uniqueHosts is a Map: its entries [key, events, server] in insertion order
Has(map, key) == \E n \in 1..Len(map) : map[n].key = key

\* hostConfig.events.add for every trigger event type of the camera
AddEvents(map, key, types) ==
    [n \in 1..Len(map) |->
        IF map[n].key = key
        THEN [map[n] EXCEPT !.events = @ \cup {types[m] : m \in 1..Len(types)}]
        ELSE map[n]]

NewHost(key, server) ==
    [key |-> key, events |-> {},
     server |-> [host |-> server.host, user |-> server.user, pass |-> server.pass]]

\* if(config.host) uniqueHosts.set(config.host, ...) (part_000 31-36)
TopLevelHost(cfg) ==
    IF Truthy(cfg.host) THEN <<NewHost(cfg.host, cfg)>> ELSE <<>>

\* The body of cameras.forEach (part_000 37-52). uniqueHosts.get returns
\* undefined for a key that has no entry, and hostConfig.events then throws a
\* TypeError, which ends the constructor.
GroupCamera(st, cfg, camera) ==
    LET credentials == camera.cameraCredentials
    IN  IF st.thrown THEN st
        ELSE IF credentials.defined /\ ~Has(st.map, credentials.host)
        THEN [st EXCEPT !.map = AddEvents(Append(st.map, NewHost(credentials.host,
                                                                 credentials)),
                                          credentials.host, camera.triggerEventTypes)]
        ELSE IF credentials.defined
        THEN [st EXCEPT !.map = AddEvents(st.map, credentials.host,
                                          camera.triggerEventTypes)]
        ELSE IF Has(st.map, cfg.host)
        THEN [st EXCEPT !.map = AddEvents(st.map, cfg.host, camera.triggerEventTypes)]
        ELSE [st EXCEPT !.thrown = TRUE]

RECURSIVE GroupCameras(_, _, _)
GroupCameras(st, cfg, cams) ==
    IF cams = <<>> THEN st
    ELSE GroupCameras(GroupCamera(st, cfg, Head(cams)), cfg, Tail(cams))

uniqueHosts(cfg) ==
    GroupCameras([map |-> TopLevelHost(cfg), thrown |-> FALSE], cfg, cfg.cameras)

\* new DahuaEvents(host, user, pass, useHttp, events) for every entry of
\* uniqueHosts (part_000 53-55)
DahuaEventsFor(map) ==
    [n \in 1..Len(map) |->
        [host |-> map[n].server.host, user |-> map[n].server.user,
         pass |-> map[n].server.pass, events |-> map[n].events]]

PlatformInit ==
    /\ config \in Configs
    /\ phase = "loaded"
    /\ connections = <<>>
    /\ delivered = NoAlarm
    /\ posts = <<>>
    /\ NoInstance
    /\ NoTargets

\* constructor (part_000 21-66)
PlatformConstructor ==
    /\ phase = "loaded"
    /\ IF isInvalidConfig(config)
       THEN /\ phase' = "rejected"
            /\ connections' = <<>>
       ELSE LET hosts == uniqueHosts(config)
            IN  IF hosts.thrown
                THEN /\ phase' = "failed"
                     /\ connections' = <<>>
                ELSE /\ phase' = "running"
                     /\ connections' = DahuaEventsFor(hosts.map)
    /\ UNCHANGED <<config, delivered, posts, engineVars, twoVars>>

(***************************************************************************)
(* alertMotion (part_000 68-122)                                           *)
(***************************************************************************)

\* a === b for two numbers
StrictEquals(a, b) == ~a.nan /\ ~b.nan /\ a.val = b.val

\* camera.triggerEventTypes.includes(alarm.eventType)
IncludesType(types, eventType) == \E m \in 1..Len(types) : types[m] = eventType

\* MatchesAnyType: the two includes tests left out
MatchesAnyType(cfg, camera, alarm) ==
    /\ StrictEquals(camera.index, alarm.index)
    /\ \/ /\ camera.cameraCredentials.defined
          /\ camera.cameraCredentials.host.value = alarm.host
       \/ /\ ~camera.cameraCredentials.defined
          /\ Truthy(cfg.host)
          /\ cfg.host.value = alarm.host

\* The two nested tests of getCameraName (part_000 114-116)
Matches(cfg, camera, alarm) ==
    /\ StrictEquals(camera.index, alarm.index)
    /\ \/ /\ camera.cameraCredentials.defined
          /\ camera.cameraCredentials.host.value = alarm.host
          /\ IncludesType(camera.triggerEventTypes, alarm.eventType)
       \/ /\ ~camera.cameraCredentials.defined
          /\ Truthy(cfg.host)
          /\ cfg.host.value = alarm.host
          /\ IncludesType(camera.triggerEventTypes, alarm.eventType)

\* getCameraName (part_000 111-122): the name of the first camera that matches,
\* or null
getCameraName(cfg, alarm) ==
    LET found == {n \in 1..Len(cfg.cameras) : Matches(cfg, cfg.cameras[n], alarm)}
    IN  IF found = {} THEN Undefined
        ELSE cfg.cameras[CHOOSE n \in found : \A m \in found : n <= m].cameraName

\* encodeURI: a space becomes %20; letters, digits and the marks of a URL stay
RECURSIVE encodeURI(_)
encodeURI(s) ==
    IF s = <<>> THEN <<>>
    ELSE (IF Head(s) = " " THEN <<"%", "2", "0">> ELSE <<Head(s)>>) \o encodeURI(Tail(s))

\* motionUrl and resetMotionUrl (part_000 103-109)
motionUrl(cfg, cameraName) ==
    encodeURI(<<"h", "t", "t", "p", ":", "/", "/", "l", "o", "c", "a", "l", "h", "o", "s", "t", ":">>
              \o cfg.homebridgeCameraFfmpegHttpPort.value
              \o <<"/", "m", "o", "t", "i", "o", "n", "?">> \o cameraName)

resetMotionUrl(cfg, cameraName) ==
    encodeURI(<<"h", "t", "t", "p", ":", "/", "/", "l", "o", "c", "a", "l", "h", "o", "s", "t", ":">>
              \o cfg.homebridgeCameraFfmpegHttpPort.value
              \o <<"/", "m", "o", "t", "i", "o", "n", "/", "r", "e", "s", "e", "t", "?">>
              \o cameraName)

Start == <<"S", "t", "a", "r", "t">>

Stop == <<"S", "t", "o", "p">>

Pulse == <<"P", "u", "l", "s", "e">>

\* The alarms an instance constructed for host h can publish: records of both
\* event types, and the alarm of a chunk without a record
AlarmsFrom(h) ==
    {[present |-> TRUE, action |-> a, index |-> Num(i), eventType |-> e, host |-> h] :
        a \in {Start, Stop, Pulse}, i \in {0, 1}, e \in {VideoMotion, AlarmLocal}}
    \cup {[present |-> TRUE, action |-> <<>>, index |-> Num(SentinelIndex),
           eventType |-> <<>>, host |-> h]}

\* alertMotion (part_000 68-101), the listener of every instance's 'alarm'
alertMotion(dahuaAlarm) ==
    /\ phase = "running"
    /\ LET cameraName == getCameraName(config, dahuaAlarm)
       IN  posts' = IF ~Truthy(cameraName) THEN <<>>
                    ELSE IF dahuaAlarm.action = Start
                    THEN <<motionUrl(config, cameraName.value)>>
                    ELSE IF dahuaAlarm.action = Stop
                    THEN <<resetMotionUrl(config, cameraName.value)>>
                    ELSE <<>>
    /\ delivered' = dahuaAlarm
    /\ UNCHANGED <<config, phase, connections, engineVars, twoVars>>

PlatformNext ==
    \/ PlatformConstructor
    \/ \E n \in 1..Len(connections) : \E dahuaAlarm \in AlarmsFrom(connections[n].host.value) :
          alertMotion(dahuaAlarm)

PlatformSpec == PlatformInit /\ [][PlatformNext]_vars

(***************************************************************************)
(* One response stream, from the moment .then attached its listeners: the  *)
(* chunks the camera sends, one after another, until the stream terminates. *)
(***************************************************************************)

\* Alarms followed on one stream
MaxPublished == 2

ChunkVideoMotion == <<"C", "o", "d", "e", "=", "V", "i", "d", "e", "o", "M", "o", "t", "i", "o", "n", ";", "a", "c", "t", "i", "o", "n", "=", "S", "t", "a", "r", "t", ";", "i", "n", "d", "e", "x", "=", "0">>

ChunkTwoFields == <<"-", "-", "m", "y", "b", "o", "u", "n", "d", "a", "r", "y", "\n", "C", "o", "d", "e", "=", "V", "M", ";", "a", "c", "t", "i", "o", "n", "=", "S", "t", "o", "p", "\n">>

ChunkTwoRecords == <<"C", "o", "d", "e", "=", "V", "M", ";", "a", "c", "t", "i", "o", "n", "=", "S", "t", "a", "r", "t", ";", "i", "n", "d", "e", "x", "=", "0", "\n", "C", "o", "d", "e", "=", "A", "L", ";", "a", "c", "t", "i", "o", "n", "=", "S", "t", "o", "p", ";", "i", "n", "d", "e", "x", "=", "1", "\r", "\n">>

\* The record of ChunkStart once more, this time without the part headers
ChunkRecordOnly == <<"C", "o", "d", "e", "=", "V", "M", ";", "a", "c", "t", "i", "o", "n", "=", "S", "t", "a", "r", "t", ";", "i", "n", "d", "e", "x", "=", "0">>

StreamChunks ==
    Chunks \cup {ChunkVideoMotion, ChunkTwoFields, ChunkTwoRecords, ChunkRecordOnly}

\* The state .then leaves behind for the constructor's request (dahua.ts 77-103)
StreamInit ==
    /\ requests = <<>>
    /\ streams = <<"open">>
    /\ timers = <<>>
    /\ HEADERS = NoAuthorization
    /\ alarms = <<>>
    /\ last = Ran("then", <<"alarm_payload", "alarm_payload">>)
    /\ data = <<>>
    /\ parsed = NotParsed
    /\ solved = 0
    /\ auth = Operator
    /\ NoTargets
    /\ NoPlatform

StreamNext ==
    \/ \E j \in 1..Len(streams), chunk \in StreamChunks :
          /\ Len(alarms) < MaxPublished
          /\ StreamData(j, chunk)
    \/ \E j \in 1..Len(streams) : StreamError(j)
    \/ \E j \in 1..Len(streams) : StreamEnd(j)
    \/ \E j \in 1..Len(streams) : StreamClose(j)

StreamSpec == StreamInit /\ [][StreamNext]_vars

(***************************************************************************)
(* Properties of the connection engine                                     *)
(***************************************************************************)

OpenStreams == Cardinality({j \in 1..Len(streams) : streams[j] = "open"})

\* Requests in flight plus open streams
Outstanding == Len(requests) + OpenStreams

Newest(reqs) == reqs[Len(reqs)]

CountOf(seq, x) == Cardinality({n \in 1..Len(seq) : seq[n] = x})

FreshTimer == [interval |-> RECONNECT_INTERNAL_MS, elapsed |-> 0]

\* C1: at most one outstanding connection. In every reachable state the number
\* of requests in flight plus the number of open streams is at most one.
C1_AtMostOneConnection == Outstanding <= 1

\* C1 witness: after a stream ended and the reconnect timer fired, the new
\* request is in flight while the ended stream has not closed yet.
C1_Witness ==
    /\ last.handler = "timer"
    /\ Len(requests) = 1
    /\ \E j \in 1..Len(streams) : streams[j] = "ended"

\* C2: the engine never gives up on a target. There is no terminal state: at
\* every moment a request is in flight, a stream is open or a reconnect timer
\* is pending, so that a new connection attempt is still to come.
C2_NeverGivesUp == Len(requests) + OpenStreams + Len(timers) >= 1

\* A transport error signal was handled in this step: the stream 'error'
\* listener ran, or the catch handler ran for a failure that is not a 401
\* carrying a WWW-Authenticate header.
TransportErrorStep ==
    \/ last'.handler = "error"
    \/ /\ last'.handler = "catch"
       /\ ~(last'.err.kind = "response" /\ last'.err.status = 401
            /\ last'.err.wwwAuth.defined)

\* A connection attempt was issued in this step: a request is in flight that
\* was not in flight before.
AttemptStep ==
    \/ Len(requests') > Len(requests)
    \/ last'.handler = "catch" /\ Len(requests') = Len(requests)

\* C3: a transport error signal schedules exactly one reconnect timer with the
\* fixed delay RECONNECT_INTERNAL_MS and issues no request itself; a request
\* with counter 0 is issued only by a timer that has waited the full delay,
\* and every other request is a digest retry issued by the catch handler.
C3_ReconnectOnceAfterDelay ==
    [][/\ TransportErrorStep =>
            /\ timers' = Append(timers, FreshTimer)
            /\ ~AttemptStep
       /\ AttemptStep =>
            \/ /\ last'.handler = "timer"
               /\ last'.waited >= RECONNECT_INTERNAL_MS
            \/ /\ last'.handler = "catch"
               /\ Newest(requests').count > 0]_vars

\* C3 witness: a stream errored, its timer waited the full delay and fired.
C3_Witness ==
    /\ last.handler = "timer"
    /\ last.waited >= RECONNECT_INTERNAL_MS
    /\ \E j \in 1..Len(streams) : streams[j] = "errored"
    /\ Len(requests) = 1
    /\ timers = <<>>

\* C4: when an open stream ends, the 'end' listener emits 'reconnecting'
\* exactly once and schedules exactly one timer with the fixed delay without
\* issuing a request; the 'close' that follows schedules and issues nothing;
\* the timer, once it fires, is gone and issues exactly one request, whose
\* counter is 0.
C4_EndReconnectsOnce ==
    [][/\ last'.handler = "end" =>
            /\ CountOf(last'.emitted, "reconnecting") = 1
            /\ timers' = Append(timers, FreshTimer)
            /\ requests' = requests
       /\ last'.handler = "close" =>
            /\ CountOf(last'.emitted, "reconnecting") = 0
            /\ timers' = timers
            /\ requests' = requests
       /\ last'.handler = "timer" =>
            /\ Len(timers') = Len(timers) - 1
            /\ last'.waited >= RECONNECT_INTERNAL_MS
            /\ Len(requests') = Len(requests) + 1
            /\ SubSeq(requests', 1, Len(requests)) = requests
            /\ Newest(requests').count = 0]_vars

\* C4 witness: the stream of an authenticated attempt (counter above 0) ended
\* and closed, and the timer issued the one new request with counter 0.
C4_Witness ==
    /\ last.handler = "timer"
    /\ HEADERS.present
    /\ streams = <<>>
    /\ timers = <<>>
    /\ Len(requests) = 1
    /\ requests[1].count = 0

\* C5: when the request with counter 0 fails with 401 and a challenge whose
\* realm and nonce can be extracted, the catch handler issues exactly one
\* request in its place, with counter 1 and an Authorization header carrying
\* nc="00000001", schedules no timer and emits neither 'error' nor
\* 'reconnecting'.
C5_ImmediateDigestRetry ==
    [][(/\ last'.handler = "catch"
        /\ last'.count = 0
        /\ IsChallenge(last'.err)
        /\ ExtractionSucceeds(last'.err.wwwAuth.value)) =>
            /\ Len(requests') = Len(requests)
            /\ Newest(requests').count = 1
            /\ Newest(requests').authorization.present
            /\ Newest(requests').authorization.nc
                 = <<"0", "0", "0", "0", "0", "0", "0", "1">>
            /\ Newest(requests').authorization = HEADERS'
            /\ timers' = timers
            /\ CountOf(last'.emitted, "error") = 0
            /\ CountOf(last'.emitted, "reconnecting") = 0]_vars

\* C5 witness: the first request of the target was answered 401 with the
\* challenge of the source's comment, and the retry is in flight.
C5_Witness ==
    /\ last.handler = "catch"
    /\ last.count = 0
    /\ last.err = ResponseError(401, Defined(ChallengeSpaced))
    /\ Len(requests) = 1
    /\ requests[1].count = 1
    /\ timers = <<>>

\* The digest branch ran in the last step and issued its retry
DigestRetried ==
    /\ last.handler = "catch"
    /\ IsChallenge(last.err)
    /\ ExtractionSucceeds(last.err.wwwAuth.value)

\* nc is the zero-padded 8-digit decimal representation of n
IsPaddedDecimal(nc, n) == Len(nc) = 8 /\ AllDigits(nc) /\ DecimalValue(nc) = n

NcLimit == Pow10(8)

\* C6 (as stated): after every digest retry the counter of the new request is
\* the counter of the failed request plus 1, and the nc of the Authorization
\* header is the zero-padded 8-digit decimal representation of that counter,
\* for every counter value.
C6_NcPaddedForEveryCount ==
    DigestRetried =>
        /\ Newest(requests).count = last.count + 1
        /\ Newest(requests).authorization = HEADERS
        /\ IsPaddedDecimal(HEADERS.nc, Newest(requests).count)

\* C6 (amended): after every digest retry the counter of the new request is
\* the counter of the failed request plus 1; the nc of the Authorization
\* header is the zero-padded 8-digit decimal representation of that counter
\* when the counter is below 10^8, and the last eight decimal digits of the
\* counter from 10^8 on.
C6_NcPaddedBelowLimit ==
    DigestRetried =>
        /\ Newest(requests).count = last.count + 1
        /\ Newest(requests).authorization = HEADERS
        /\ IsPaddedDecimal(HEADERS.nc, Newest(requests).count % NcLimit)

\* C6 witness: the retry after counter 99 carries counter 100 and nc 00000100.
C6_Witness ==
    /\ DigestRetried
    /\ last.count = 99
    /\ Newest(requests).count = 100
    /\ HEADERS.nc = <<"0", "0", "0", "0", "0", "1", "0", "0">>

\* C7: every request failure other than a 401 with a WWW-Authenticate header
\* makes the catch handler emit 'error' once, then 'reconnecting', schedule
\* exactly one timer with the fixed delay and issue no request.
C7_FailureReportedThenDelayed ==
    [][(/\ last'.handler = "catch"
        /\ ~(/\ last'.err.kind = "response"
             /\ last'.err.status = 401
             /\ last'.err.wwwAuth.defined
             /\ last'.err.wwwAuth.value # <<>>)) =>
            /\ last'.emitted = <<"error", "reconnecting">>
            /\ timers' = Append(timers, FreshTimer)
            /\ Len(requests') = Len(requests) - 1
            /\ HEADERS' = HEADERS]_vars

\* C7 witness: a 403 that carries a challenge header was reported and its
\* reconnect scheduled, with no request left in flight.
C7_Witness ==
    /\ last.handler = "catch"
    /\ last.err = ResponseError(403, Defined(ChallengeQuoted))
    /\ last.emitted = <<"error", "reconnecting">>
    /\ requests = <<>>
    /\ timers = <<FreshTimer>>

\* C8: a 401 whose WWW-Authenticate header does not yield realm and nonce (its
\* first or third comma-separated field is missing or has no '=' part) makes
\* the catch handler emit 'error', schedule one timer with the fixed delay,
\* issue no request and store no Authorization header.
C8_UnparsableChallengeDelayed ==
    [][(/\ last'.handler = "catch"
        /\ last'.err.kind = "response"
        /\ last'.err.status = 401
        /\ Truthy(last'.err.wwwAuth)
        /\ ~ExtractionSucceeds(last'.err.wwwAuth.value)) =>
            /\ CountOf(last'.emitted, "error") = 1
            /\ timers' = Append(timers, FreshTimer)
            /\ Len(requests') = Len(requests) - 1
            /\ \A n \in 1..Len(requests') : \E o \in 1..Len(requests) :
                   requests'[n] = requests[o]
            /\ HEADERS' = HEADERS]_vars

\* C8 witness: a 401 whose challenge has only two fields was reported and its
\* reconnect scheduled, with no request left in flight.
C8_Witness ==
    /\ last.handler = "catch"
    /\ last.err = ResponseError(401, Defined(ChallengeTwoFields))
    /\ requests = <<>>
    /\ timers = <<FreshTimer>>

(***************************************************************************)
(* Properties of parseEventData                                            *)
(***************************************************************************)

\* The lines of a buffer that contain ';'
RECURSIVE KeepQualifying(_)
KeepQualifying(lines) ==
    IF lines = <<>> THEN <<>>
    ELSE IF Includes(Head(lines), ";")
    THEN <<Head(lines)>> \o KeepQualifying(Tail(lines))
    ELSE KeepQualifying(Tail(lines))

QualifyingLines(buffer) == KeepQualifying(Split(buffer, "\n"))

\* The well-formed record lines among the inputs, with the fields each spells
WellFormedLines == {LineStart, LineStopData, LinePulseCR}

FieldsOf(line) ==
    CASE line = LineStart ->
           [eventType |-> <<"V", "M">>, action |-> <<"S", "t", "a", "r", "t">>,
            index |-> Num(0)]
      [] line = LineStopData ->
           [eventType |-> <<"V", "L">>, action |-> <<"S", "t", "o", "p">>,
            index |-> Num(5)]
      [] line = LinePulseCR ->
           [eventType |-> <<"A", "L">>, action |-> <<"P", "u", "l", "s", "e">>,
            index |-> Num(12)]

Returned(event) ==
    [eventType |-> event.eventType, action |-> event.action, index |-> event.index]

\* C9: whenever parseEventData hits a parsing exception it returns (it does
\* not raise), has emitted its diagnostic, and the record it returns is
\* exactly the sentinel action="", index=-999, eventType="".
C9_SentinelOnException ==
    (parsed.done /\ parsed.diagnostic) =>
        Returned(parsed) = [eventType |-> <<>>, action |-> <<>>,
                            index |-> Num(0 - 999)]

\* C10: for a buffer whose qualifying lines (those containing ';') are two or
\* more well-formed records, parseEventData returns exactly the fields of the
\* last qualifying line without a diagnostic; and for every buffer the result
\* is the one obtained from its qualifying lines alone, so lines without ';'
\* do not affect it.
C10_LastRecordWins ==
    parsed.done =>
        LET q == QualifyingLines(data)
        IN  /\ (Len(q) >= 2 /\ \A n \in 1..Len(q) : q[n] \in WellFormedLines) =>
                 /\ Returned(parsed) = FieldsOf(q[Len(q)])
                 /\ ~parsed.diagnostic
            /\ Returned(parsed) = Returned(parseEventData(Join(q, <<"\n">>)))

\* C10 witness: two well-formed records with a boundary line between them have
\* been parsed, and the fields are those of the second record.
C10_Witness ==
    /\ parsed.done
    /\ data = Join(<<LineStart, LineBoundary, LineStopData>>, <<"\n">>)
    /\ Returned(parsed) = FieldsOf(LineStopData)

(***************************************************************************)
(* Properties of the 'data' listener                                       *)
(***************************************************************************)

\* The chunks that hold exactly one well-formed record line, with the fields
\* that line spells
OneRecordChunks == {ChunkStart, ChunkStop, ChunkVideoMotion, ChunkRecordOnly}

RecordOf(chunk) ==
    CASE chunk \in {ChunkStart, ChunkRecordOnly} ->
           [action |-> <<"S", "t", "a", "r", "t">>, index |-> Num(0),
            eventType |-> <<"V", "M">>, host |-> "10.0.0.5"]
      [] chunk = ChunkStop ->
           [action |-> <<"S", "t", "o", "p">>, index |-> Num(5),
            eventType |-> <<"V", "M">>, host |-> "10.0.0.5"]
      [] chunk = ChunkVideoMotion ->
           [action |-> <<"S", "t", "a", "r", "t">>, index |-> Num(0),
            eventType |-> <<"V", "i", "d", "e", "o", "M", "o", "t", "i", "o", "n">>,
            host |-> "10.0.0.5"]

DataStep == last'.handler = "data"

\* C11: a chunk received on an open stream that holds one well-formed record
\* line Code=<eventType>;action=<action>;index=<index> makes the 'data'
\* listener publish exactly one alarm, and that alarm carries the line's
\* eventType, action and numeric index and the host of the instance.
C11_RecordPublishedOnce ==
    [][(DataStep /\ last'.chunk \in OneRecordChunks) =>
          /\ CountOf(last'.emitted, "alarm") = 1
          /\ alarms' = Append(alarms, RecordOf(last'.chunk))]_vars

\* C11 witness: the chunk Code=VideoMotion;action=Start;index=0 has been
\* received and its alarm is the newest one published.
C11_Witness ==
    /\ last.handler = "data"
    /\ last.chunk = ChunkVideoMotion
    /\ alarms # <<>>
    /\ Newest(alarms) = RecordOf(ChunkVideoMotion)

\* C12: the alarms of one instance are published in the order its chunks are
\* received, none reordered and none dropped as a duplicate: each 'data' step
\* appends the alarm of its chunk after all earlier ones, also when an equal
\* alarm is already there, and no other step touches the published sequence.
C12_AlarmsInArrivalOrder ==
    [][IF DataStep
       THEN /\ Len(alarms') = Len(alarms) + 1
            /\ SubSeq(alarms', 1, Len(alarms)) = alarms
            /\ Newest(alarms') = AlarmOf(parseEventData(last'.chunk))
       ELSE alarms' = alarms]_vars

\* C12 witness: the same record arrived in two chunks and two equal alarms
\* were published, one after the other.
C12_Witness ==
    /\ last.handler = "data"
    /\ last.chunk = ChunkRecordOnly
    /\ Len(alarms) >= 2
    /\ alarms[Len(alarms) - 1] = RecordOf(ChunkStart)
    /\ Newest(alarms) = RecordOf(ChunkStart)

SentinelAlarm ==
    [action |-> <<>>, index |-> Num(0 - 999), eventType |-> <<>>, host |-> "10.0.0.5"]

\* C19: every chunk received on an open stream makes the 'data' listener
\* publish exactly one alarm, whatever the chunk holds; when no line of the
\* chunk contains ';' that alarm carries action "", index -999, eventType ""
\* and the host of the instance.
C19_EveryChunkPublishes ==
    [][DataStep =>
          /\ CountOf(last'.emitted, "alarm") = 1
          /\ Len(alarms') = Len(alarms) + 1
          /\ QualifyingLines(last'.chunk) = <<>> => Newest(alarms') = SentinelAlarm]_vars

\* C19 witness: a chunk holding only the boundary marker and a blank line was
\* received and the sentinel alarm was published for it.
C19_Witness ==
    /\ last.handler = "data"
    /\ last.chunk = ChunkHeartbeat
    /\ alarms # <<>>
    /\ Newest(alarms) = SentinelAlarm

(***************************************************************************)
(* Properties of the digest state kept between attempts                    *)
(***************************************************************************)

\* C13: a challenge is not carried across reconnect cycles. Every request
\* issued with counter 0 (the constructor's and each one the reconnect timer
\* starts) goes out without an Authorization header.
C13_FreshAttemptUnauthenticated ==
    \A i \in 1..Len(requests) :
        requests[i].count = 0 => ~requests[i].authorization.present

\* C20: authentication retries are immediate and unlimited. Whatever the
\* counter of the failed request, a 401 with a challenge whose realm and nonce
\* can be extracted is answered by one new request with the counter one higher,
\* with no timer scheduled and neither 'error' nor 'reconnecting' emitted; and
\* the counter of the request in flight always equals the number of challenges
\* answered since the constructor or the last firing of the reconnect timer.
C20_RetriesUnlimited ==
    /\ [](\A i \in 1..Len(requests) : requests[i].count = solved)
    /\ [][(/\ last'.handler = "catch"
           /\ IsChallenge(last'.err)
           /\ ExtractionSucceeds(last'.err.wwwAuth.value)) =>
               /\ Len(requests') = Len(requests)
               /\ Newest(requests').count = last'.count + 1
               /\ timers' = timers
               /\ CountOf(last'.emitted, "error") = 0
               /\ CountOf(last'.emitted, "reconnecting") = 0]_vars

\* C20 witness: two challenges in a row were answered: the second retry is in
\* flight with counter 2 and nc 00000002, and no timer is pending.
C20_Witness ==
    /\ last.handler = "catch"
    /\ last.count = 1
    /\ IsChallenge(last.err)
    /\ Len(requests) = 1
    /\ requests[1].count = 2
    /\ solved = 2
    /\ HEADERS.nc = <<"0", "0", "0", "0", "0", "0", "0", "2">>
    /\ timers = <<>>

\* The realm and nonce fields each challenge spells
ChallengeFields(challenge) ==
    CASE challenge \in {ChallengeQuoted, ChallengeSpaced, ChallengeNonceSecond} ->
           [realm |-> <<"L">>, nonce |-> <<"a", "1">>]
      [] challenge = ChallengeBare ->
           [realm |-> <<"M">>, nonce |-> <<"b", "2">>]
      [] challenge = ChallengeNoncePadded ->
           [realm |-> <<"L">>, nonce |-> <<"a", "1", "=", "=">>]

\* MD5(HA1:nonce:nc:cnonce:auth:HA2) with HA1 = MD5(username:realm:password)
\* and HA2 = MD5(GET:uri)
ReferenceResponse(username, password, realm, nonce, nc, cnonce, uri) ==
    md5(Join(<<md5(Join(<<username, realm, password>>, <<":">>)),
              nonce, nc, cnonce, <<"a", "u", "t", "h">>,
              md5(Join(<<<<"G", "E", "T">>, uri>>, <<":">>))>>, <<":">>))

\* C14: for every well-formed Digest challenge and every credential pair, the
\* response stored in the Authorization header is
\* MD5(HA1:nonce:nc:cnonce:auth:HA2), computed from the values of the
\* challenge's realm and nonce fields and from the nc, cnonce and uri the same
\* header carries.
C14_ResponseMatchesReference ==
    DigestRetried =>
        LET fields == ChallengeFields(last.err.wwwAuth.value)
        IN  HEADERS.response =
                ReferenceResponse(auth.username, auth.password, fields.realm,
                                  fields.nonce, HEADERS.nc, HEADERS.cnonce, HEADERS.uri)

(***************************************************************************)
(* Properties of two instances side by side                                *)
(***************************************************************************)

\* What an instance owns: its requests with their counters, its streams, its
\* timers, its published alarms, and the content of its HEADERS object
Owned(t) == <<targets[t], HEADERSOf[HeadersObject(t)]>>

\* C15: targets are independent. A callback of one instance (request outcome,
\* digest retry, stream event, timer firing) leaves the request counter, the
\* stored headers, the pending timers and the connection state of the other
\* instance as they were; and whatever state one instance is in, a response
\* for the request the other has in flight can be taken up.
C15_TargetsIndependent ==
    /\ [][\A t \in TargetIds :
            (acted'.handler # "tick" /\ acted'.target # t) => Owned(t)' = Owned(t)]_vars
    /\ [](\A t \in TargetIds :
            (targets[t].requests # <<>> /\ targets[t].streams = <<>>) =>
                ENABLED TargetThen(t, 1))

\* C15 witness: instance 1 failed without a response and waits for its timer,
\* while instance 2 answered a challenge and then had its stream opened.
C15_Witness ==
    /\ acted = [target |-> 2, handler |-> "then"]
    /\ targets[1].requests = <<>>
    /\ targets[1].streams = <<>>
    /\ Len(targets[1].timers) = 1
    /\ ~HEADERSOf[1].present
    /\ targets[2].streams = <<"open">>
    /\ HEADERSOf[2].present

(***************************************************************************)
(* Properties of the platform                                              *)
(***************************************************************************)

Constructed == phase # "loaded"

\* The credentials a camera is reached with: its own, or the top-level ones
CredentialsOf(cfg, camera) ==
    IF camera.cameraCredentials.defined THEN camera.cameraCredentials
    ELSE [host |-> cfg.host, user |-> cfg.user, pass |-> cfg.pass]

\* A camera of the configuration lacks a host, a user, a pass or event codes
MissingForSomeTarget(cfg) ==
    \E n \in 1..Len(cfg.cameras) :
        LET credentials == CredentialsOf(cfg, cfg.cameras[n])
        IN  \/ ~Truthy(credentials.host)
            \/ ~Truthy(credentials.user)
            \/ ~Truthy(credentials.pass)
            \/ cfg.cameras[n].triggerEventTypes = <<>>

\* C16: for every configuration isInvalidConfig accepts, the constructor runs
\* to its end and every DahuaEvents it constructs has a host, a user, a pass
\* and at least one event code; and a configuration in which some camera lacks
\* a host, credentials or event codes produces no connection.
C16_AcceptedConfigConstructs ==
    /\ (Constructed /\ ~isInvalidConfig(config)) =>
          /\ phase = "running"
          /\ \A n \in 1..Len(connections) :
                /\ Truthy(connections[n].host)
                /\ Truthy(connections[n].user)
                /\ Truthy(connections[n].pass)
                /\ connections[n].events # {}
    /\ (Constructed /\ MissingForSomeTarget(config)) => connections = <<>>

\* The hosts a configuration names: the top-level one and those of the
\* cameras' credentials
DistinctHosts(cfg) ==
    (IF Truthy(cfg.host) THEN {cfg.host.value} ELSE {})
    \cup {cfg.cameras[n].cameraCredentials.host.value :
            n \in {m \in 1..Len(cfg.cameras) : cfg.cameras[m].cameraCredentials.defined}}

\* The trigger event types of all cameras that are reached at host h
EventsFor(cfg, h) ==
    UNION {{cfg.cameras[n].triggerEventTypes[m] :
                m \in 1..Len(cfg.cameras[n].triggerEventTypes)} :
            n \in {k \in 1..Len(cfg.cameras) :
                     CredentialsOf(cfg, cfg.cameras[k]).host.value = h}}

\* C17: for every configuration isInvalidConfig accepts, the constructor
\* creates exactly one DahuaEvents per distinct host named at the top level or
\* in a camera's credentials, and gives each the union of the trigger event
\* types of the cameras mapped to its host.
C17_OneConnectionPerHost ==
    (Constructed /\ ~isInvalidConfig(config)) =>
        /\ Len(connections) = Cardinality(DistinctHosts(config))
        /\ \A h \in DistinctHosts(config) :
              Cardinality({n \in 1..Len(connections) : connections[n].host.value = h}) = 1
        /\ \A n \in 1..Len(connections) :
              connections[n].events = EventsFor(config, connections[n].host.value)

\* Some configured camera has the alarm's index, is reached at the alarm's
\* host and lists the alarm's event type; the names of those cameras
MatchingNames(cfg, alarm) ==
    {cfg.cameras[n].cameraName.value :
        n \in {m \in 1..Len(cfg.cameras) :
                 /\ cfg.cameras[m].index = alarm.index
                 /\ CredentialsOf(cfg, cfg.cameras[m]).host = Defined(alarm.host)
                 /\ alarm.eventType \in {cfg.cameras[m].triggerEventTypes[k] :
                                           k \in 1..Len(cfg.cameras[m].triggerEventTypes)}}}

\* The URLs of /motion?{cameraName} and /motion/reset?{cameraName} on port 8080
MotionUrlOf(name) ==
    CASE name = <<"F", "r", "o", "n", "t">> ->
           <<"h", "t", "t", "p", ":", "/", "/", "l", "o", "c", "a", "l", "h", "o", "s", "t", ":", "8", "0", "8", "0", "/", "m", "o", "t", "i", "o", "n", "?", "F", "r", "o", "n", "t">>
      [] name = <<"B", "a", "c", "k", " ", "Y", "a", "r", "d">> ->
           <<"h", "t", "t", "p", ":", "/", "/", "l", "o", "c", "a", "l", "h", "o", "s", "t", ":", "8", "0", "8", "0", "/", "m", "o", "t", "i", "o", "n", "?", "B", "a", "c", "k", "%", "2", "0", "Y", "a", "r", "d">>
      [] name = <<"G", "a", "t", "e">> ->
           <<"h", "t", "t", "p", ":", "/", "/", "l", "o", "c", "a", "l", "h", "o", "s", "t", ":", "8", "0", "8", "0", "/", "m", "o", "t", "i", "o", "n", "?", "G", "a", "t", "e">>
      [] name = <<"S", "h", "e", "d">> ->
           <<"h", "t", "t", "p", ":", "/", "/", "l", "o", "c", "a", "l", "h", "o", "s", "t", ":", "8", "0", "8", "0", "/", "m", "o", "t", "i", "o", "n", "?", "S", "h", "e", "d">>

ResetUrlOf(name) ==
    CASE name = <<"F", "r", "o", "n", "t">> ->
           <<"h", "t", "t", "p", ":", "/", "/", "l", "o", "c", "a", "l", "h", "o", "s", "t", ":", "8", "0", "8", "0", "/", "m", "o", "t", "i", "o", "n", "/", "r", "e", "s", "e", "t", "?", "F", "r", "o", "n", "t">>
      [] name = <<"B", "a", "c", "k", " ", "Y", "a", "r", "d">> ->
           <<"h", "t", "t", "p", ":", "/", "/", "l", "o", "c", "a", "l", "h", "o", "s", "t", ":", "8", "0", "8", "0", "/", "m", "o", "t", "i", "o", "n", "/", "r", "e", "s", "e", "t", "?", "B", "a", "c", "k", "%", "2", "0", "Y", "a", "r", "d">>
      [] name = <<"G", "a", "t", "e">> ->
           <<"h", "t", "t", "p", ":", "/", "/", "l", "o", "c", "a", "l", "h", "o", "s", "t", ":", "8", "0", "8", "0", "/", "m", "o", "t", "i", "o", "n", "/", "r", "e", "s", "e", "t", "?", "G", "a", "t", "e">>
      [] name = <<"S", "h", "e", "d">> ->
           <<"h", "t", "t", "p", ":", "/", "/", "l", "o", "c", "a", "l", "h", "o", "s", "t", ":", "8", "0", "8", "0", "/", "m", "o", "t", "i", "o", "n", "/", "r", "e", "s", "e", "t", "?", "S", "h", "e", "d">>

\* C18: an alarm given to alertMotion causes at most one POST, and one only
\* when some configured camera matches the alarm's index, host and event type:
\* for action Start it goes to /motion?{cameraName}, for action Stop to
\* /motion/reset?{cameraName}, with the name of a matching camera; any other
\* action, the action "" of the sentinel alarm included, causes none.
C18_AtMostOnePostForMatch ==
    delivered.present =>
        LET names == MatchingNames(config, delivered)
        IN  /\ Len(posts) <= 1
            /\ names = {} => posts = <<>>
            /\ (names # {} /\ delivered.action = <<"S", "t", "a", "r", "t">>) =>
                  \E name \in names : posts = <<MotionUrlOf(name)>>
            /\ (names # {} /\ delivered.action = <<"S", "t", "o", "p">>) =>
                  \E name \in names : posts = <<ResetUrlOf(name)>>
            /\ delivered.action \notin {<<"S", "t", "a", "r", "t">>, <<"S", "t", "o", "p">>} =>
                  posts = <<>>

\* C18 witness: a Stop alarm of VideoMotion on index 1 of the top-level host
\* was delivered and the reset of the camera "Back Yard" was posted.
C18_Witness ==
    /\ delivered.present
    /\ delivered.action = <<"S", "t", "o", "p">>
    /\ delivered.index = Num(1)
    /\ posts = <<ResetUrlOf(<<"B", "a", "c", "k", " ", "Y", "a", "r", "d">>)>>
=============================================================================
